---- MODULE Spec2Model ----
(***************************************************************************)
(* Transcription session and batch processing engine of the consultation   *)
(* note taker: the persistence guard (saveTranscript and the close-handler *)
(* saves), the batch pipeline (startBatchTranscription / processChunks),   *)
(* the periodic incremental tick of handleBatchMode, the streaming         *)
(* transcript handler and the WAV recording service.                       *)
(*                                                                         *)
(* Texts are TLA+ strings; JavaScript's s.length is Len(s), s + t is       *)
(* s \o t.  Every await of the source is a point where another handler may *)
(* run, so a handler is split into one action per run-to-await segment     *)
(* wherever another actor of the same specification can interleave.        *)
(***************************************************************************)
EXTENDS Integers, Sequences, FiniteSets, TLC

VARIABLES
    db,         \* the Consultation document as stored (Session Store)
    writers,    \* in-flight transcript writes (load / compare / save)
    initialLen, \* history: length of the transcript stored before any write
    provider,   \* batch provider the consultation's language is routed to
    job,        \* jobs.get(consultationId) of the batch service, or NoJob
    run,        \* position of startBatchTranscription / processChunks
    returned,   \* history: outcome of every adapter call of the run, in order
    submitted,  \* history: chunk numbers handed to transcribeChunk, in order
    events,     \* messages sent on the client WebSocket, in order
    wsOpen,     \* clientWs.readyState === 1
    summaries,  \* texts handed to generateSummariesInBackground, in order
    stream,     \* realtime connection: Deepgram session and close handler
    rec,        \* AudioRecordingService session and its write stream
    file,       \* the recording file on disk
    stop,       \* position of stopRecording
    snapshots,  \* what the createSnapshot calls returned, in order
    elapsed,    \* seconds since the recording started
    timer,      \* the transcription interval is set
    ticks,      \* the bodies of the interval callback, in firing order
    language,   \* the consultation's language
    directory,  \* the TranscriptionConfig document of that language
    admin,      \* admin requests on the directory
    conn,       \* routing of one connection: mode at connect and at close
    routed,     \* the provider lookups made so far, in order
    request,    \* token and consultation id of the connection request
    handler,    \* the audio-frame handler registered on the socket
    intermediates, \* normalized file and chunk files of the batch run on disk
    sockets,    \* connections attached to one consultation in batch mode
    sessions,   \* audioRecordingService.sessions.get(consultationId)
    registry    \* audioRecordingService.sessions, by consultation id

mergeVars == <<writers, initialLen>>
batchVars == <<provider, job, run, returned, submitted, events, wsOpen, summaries,
               intermediates>>
streamVars == <<stream>>
recVars == <<rec, file, stop, snapshots>>
tickVars == <<elapsed, timer, ticks>>
routeVars == <<language, directory, admin, conn, routed>>
connectVars == <<request, handler>>
attachVars == <<sockets, sessions>>
registryVars == <<registry>>

\* What the actions of each part leave alone.
outsideMerge == <<batchVars, streamVars, recVars, tickVars, routeVars, connectVars,
                  attachVars,
      registryVars>>
outsideBatch == <<mergeVars, streamVars, recVars, tickVars, routeVars, connectVars,
                  attachVars,
      registryVars>>
outsideStream == <<mergeVars, provider, job, run, returned, submitted, intermediates,
                   recVars, tickVars, routeVars, connectVars, attachVars,
      registryVars>>
outsideWav == <<db, mergeVars, batchVars, streamVars, tickVars, routeVars, connectVars,
                attachVars,
      registryVars>>
outsideTick == <<mergeVars, provider, run, returned, submitted, summaries,
                 intermediates, streamVars, snapshots, routeVars, connectVars,
                 attachVars,
      registryVars>>
outsideRoute == <<db, mergeVars, batchVars, streamVars, recVars, tickVars, connectVars,
                  attachVars,
      registryVars>>
outsideConnect == <<mergeVars, provider, job, run, returned, submitted, summaries,
                    intermediates, file, stop, snapshots, elapsed, ticks,
                    language, directory, admin, attachVars,
      registryVars>>

-----------------------------------------------------------------------------
(* Bounds *)

NumWriters == 2
MaxChunks == 3
MaxFragments == 3
MaxConnections == 2
MaxWrites == 3
MaxSnapshots == 1
MaxTicks == 3
MaxTickWrites == 2
MaxAdminChanges == 2
MaxPartialLookups == 1
MaxSockets == 2
MaxCalls == 4

-----------------------------------------------------------------------------
(* Text helpers *)

\* String.prototype.trim restricted to the space character.
RECURSIVE TrimLeft(_)
TrimLeft(s) ==
    IF Len(s) > 0 /\ SubSeq(s, 1, 1) = " "
    THEN TrimLeft(SubSeq(s, 2, Len(s)))
    ELSE s

RECURSIVE TrimRight(_)
TrimRight(s) ==
    IF Len(s) > 0 /\ SubSeq(s, Len(s), Len(s)) = " "
    THEN TrimRight(SubSeq(s, 1, Len(s) - 1))
    ELSE s

Trim(s) == TrimRight(TrimLeft(s))

\* String.prototype.includes (case sensitive substring search).
Includes(s, sub) ==
    \E i \in 1..(Len(s) - Len(sub) + 1) : SubSeq(s, i, i + Len(sub) - 1) = sub

\* JavaScript truthiness of a string.
Truthy(s) == Len(s) > 0

-----------------------------------------------------------------------------
(* Session Store: one Consultation document *)

NewConsultation(t) ==
    [ exists               |-> TRUE,
      transcript           |-> t,
      status               |-> "in_progress",
      doctorSummaryEn      |-> FALSE,
      totalChunks          |-> 0,
      processedChunks      |-> 0,
      transcriptionProgress |-> 0 ]

\* No transcript write is in flight.
MergeIdle ==
    /\ writers = <<>>
    /\ initialLen = 0

NoJob == [present |-> FALSE]

\* The batch pipeline before startBatchTranscription is called.
IdleRun == [pc |-> "idle", i |-> 0, n |-> 0]

\* No normalized file and no chunk file is on disk.
NoIntermediates == [normalized |-> FALSE, chunks |-> 0]

\* A connection that has not attached.
NoSocket == [phase |-> "none", timer |-> FALSE, rejected |-> FALSE]

\* The recording registry has no entry for the consultation.
NoRecordingSession ==
    [present |-> FALSE, owner |-> 0, snapshotBy |-> {}, stoppedBy |-> 0]

\* No connection is attached.
AttachIdle ==
    /\ sockets = [c \in 1..MaxSockets |-> NoSocket]
    /\ sessions = NoRecordingSession

\* Consultation ids the recording service is called with.
SessionIds == {"a", "b"}

\* sessions.get(id) is undefined.
NoEntryFor == [present |-> FALSE, chunksReceived |-> 0, queued |-> <<>>]

\* The recording service after construction, before any call.
RegistryIdle ==
    registry = [sessions |-> [id \in SessionIds |-> NoEntryFor],
                files |-> [id \in SessionIds |-> <<>>],
                calls |-> <<>>]

BatchIdle ==
    /\ provider = "elevenlabs"
    /\ job = NoJob
    /\ run = IdleRun
    /\ returned = <<>>
    /\ intermediates = NoIntermediates
    /\ submitted = <<>>
    /\ events = <<>>
    /\ wsOpen = FALSE
    /\ summaries = <<>>

NoSession == [present |-> FALSE, transcript |-> "", interimTranscript |-> ""]

\* No realtime connection has been made yet.
StreamIdle ==
    stream = [phase |-> "none", connections |-> 0, fragments |-> 0,
              session |-> NoSession, loaded |-> "", received |-> <<>>,
              finalTranscript |-> ""]

NoRecording ==
    [present |-> FALSE, processedDuration |-> 0, chunksReceived |-> 0,
     pending |-> <<>>, written |-> <<>>]

NoFile == [header |-> <<>>, data |-> <<>>]

StopIdle == [pc |-> "idle", header |-> <<>>, data |-> <<>>]

\* No recording session has been started.
RecIdle ==
    /\ rec = NoRecording
    /\ file = NoFile
    /\ stop = StopIdle
    /\ snapshots = <<>>

\* No transcription interval has been set.
TickIdle ==
    /\ elapsed = 0
    /\ timer = FALSE
    /\ ticks = <<>>

\* No connection request has arrived.
ConnectIdle ==
    /\ request = [token |-> "owner", id |-> "known"]
    /\ handler = "none"

NotConnected == [phase |-> "none", mode |-> "none", closeMode |-> "none"]

NoAdmin == [changes |-> 0, resetting |-> FALSE]

\* The directory holds the default entry of an English consultation and no
\* connection is being routed.
RouteIdle ==
    /\ language = "en"
    /\ directory = [present |-> TRUE, cloudProvider |-> "deepgram", enabled |-> TRUE]
    /\ admin = NoAdmin
    /\ conn = NotConnected
    /\ routed = <<>>

-----------------------------------------------------------------------------
(* Persistence guard: every code path that stores a transcript *)

\* Candidate transcripts handed to the writers (all trimmed and non-empty,
\* as every caller passes them).
Candidates == {"a", "bc", "def", "ghi"}

\* Transcripts a consultation can hold when a write starts.
StoredTexts == {""} \cup Candidates

\* The write paths:
\*   batchSave        saveTranscript(id, t, false)  per-chunk save
\*   batchPartialSave saveTranscript(id, t, true)   error-path save
\*   streamClose      ws.on('close') realtime branch
\*   endSessionSave   ElevenLabsTranscriptionService.endSession final save
\*   endSessionError  ElevenLabsTranscriptionService.endSession catch branch
WriterKinds ==
    {"batchSave", "batchPartialSave", "streamClose", "endSessionSave",
     "endSessionError"}

\* The paths named by the longest-wins contract of the persistence guard.
GuardedKinds == {"batchSave", "batchPartialSave", "streamClose"}

Writer(kind, cand) ==
    [kind |-> kind, cand |-> cand, pc |-> "start", existing |-> ""]

\* The length test of each path, on the candidate and the transcript that
\* the path loaded (consultation.transcript || '').
GuardAccepts(kind, cand, existing) ==
    CASE kind \in {"batchSave", "batchPartialSave"} ->
            Len(cand) > Len(existing) \/ Len(existing) = 0
      [] kind = "streamClose" ->
            /\ Truthy(cand) /\ Len(Trim(cand)) > 0
            /\ \/ Len(cand) > Len(existing)
               \/ (Len(cand) > 0 /\ Len(existing) = 0)
      [] kind = "endSessionSave" ->
            Len(cand) > Len(existing)
      [] kind = "endSessionError" ->
            TRUE

\* await Consultation.findById(id): the writer gets its own copy of the
\* document; the transcript it will compare against is the one stored now.
LoadTranscript(w) ==
    /\ writers[w].pc = "start"
    /\ writers' = [writers EXCEPT ![w].pc = "loaded",
                                  ![w].existing = db.transcript]
    /\ UNCHANGED <<db, initialLen>>
    /\ UNCHANGED outsideMerge

\* The synchronous length test on the loaded copy followed by
\* await consultation.save(), which stores the modified paths.
CommitTranscript(w) ==
    /\ writers[w].pc = "loaded"
    /\ LET me == writers[w] IN
       IF GuardAccepts(me.kind, me.cand, me.existing)
       THEN db' = [db EXCEPT
                     !.transcript = me.cand,
                     !.status = IF me.kind = "batchPartialSave"
                                THEN "partial" ELSE @]
       ELSE db' = db
    /\ writers' = [writers EXCEPT ![w].pc = "done"]
    /\ UNCHANGED initialLen
    /\ UNCHANGED outsideMerge

MergeInit ==
    /\ \E t \in StoredTexts :
          /\ db = NewConsultation(t)
          /\ initialLen = Len(t)
    /\ writers \in [1..NumWriters -> {Writer(k, c) : k \in WriterKinds, c \in Candidates}]
    /\ BatchIdle
    /\ StreamIdle
    /\ RecIdle
    /\ TickIdle
    /\ RouteIdle
    /\ ConnectIdle
    /\ AttachIdle
    /\ RegistryIdle

MergeNext ==
    \E w \in 1..NumWriters :
        \/ LoadTranscript(w)
        \/ CommitTranscript(w)

vars == <<db, writers, initialLen, provider, job, run, returned, submitted,
          events, wsOpen, summaries, stream, rec, file, stop, snapshots,
          elapsed, timer, ticks, language, directory, admin, conn, routed,
          request, handler, intermediates, sockets, sessions, registry>>

SpecMerge == MergeInit /\ [][MergeNext]_vars

-----------------------------------------------------------------------------
(* Claims on the persistence guard *)

AllWritesDone == \A w \in 1..NumWriters : writers[w].pc = "done"

LongestLength ==
    LET lens == {initialLen} \cup {Len(writers[w].cand) : w \in 1..NumWriters}
    IN  CHOOSE m \in lens : \A l \in lens : m >= l

\* C1: once every write of a set of guarded writes (saveTranscript of either
\* batch service, the streaming close-handler save) has completed, whatever
\* the interleaving of their load and save steps, the stored transcript has
\* the maximum length among the candidates and the transcript stored before.
C1_LongestWins ==
    (AllWritesDone /\ \A w \in 1..NumWriters : writers[w].kind \in GuardedKinds)
        => Len(db.transcript) = LongestLength

\* C2: a step of any write path changes the stored transcript only to a
\* strictly longer text, or when the stored transcript is empty.
C2_WriteOnlyIfLonger ==
    [][db'.transcript # db.transcript
         => (Len(db'.transcript) > Len(db.transcript) \/ Len(db.transcript) = 0)]_vars

-----------------------------------------------------------------------------
(* Batch pipeline: startBatchTranscription and processChunks *)

Providers == {"elevenlabs", "aws"}

\* Texts a successful adapter call can return for one chunk.
AdapterTexts == {"one", "", "three", " x "}

\* What the ElevenLabs endpoint can answer instead of a transcript: an HTTP
\* status with the vendor's message, or no response at all (status 0).
ElevenLabsFailures ==
    { [status |-> 401, detail |-> "invalid_api_key"],
      [status |-> 401, detail |-> "quota_exceeded"],
      [status |-> 429, detail |-> "too_many_requests"],
      [status |-> 500, detail |-> "internal"],
      [status |-> 0,   detail |-> "timeout of 60000ms exceeded"] }

\* The vendor reported that the quota is exceeded.
VendorSaysQuota(status, detail) == status = 429 \/ Includes(detail, "quota")

\* The Error that ElevenLabsBatchService.transcribeChunk throws for a failed
\* request: a fresh Error, so it has a message and no response property
\* (responseStatus 0 stands for undefined).
ElevenLabsError(status, detail) ==
    [ kind           |-> "error",
      text           |-> "",
      responseStatus |-> 0,
      message        |->
          CASE status = 401 ->
                  "ElevenLabs API authentication failed (401). Error: " \o detail
            [] status = 429 -> "Quota exceeded"
            [] status = 404 ->
                  "ElevenLabs API endpoint not found (404). Error: " \o detail
            [] status = 0 -> "Failed to transcribe chunk: " \o detail
            [] OTHER -> "ElevenLabs API error (500): " \o detail,
      quota          |-> VendorSaysQuota(status, detail) ]

\* transcribeChunk's existsSync test, same for both services.
ChunkFileNotFound ==
    [ kind |-> "error", text |-> "", responseStatus |-> 0,
      message |-> "Chunk file not found: chunk_000.wav", quota |-> FALSE ]

\* Errors AWSTranscribeBatchService.transcribeChunk lets through: the SDK's
\* exceptions and the errors of pollTranscriptionJob.
AWSErrors ==
    { [ kind |-> "error", text |-> "", responseStatus |-> 0,
        message |-> "AWS Transcribe permission denied.", quota |-> FALSE ],
      [ kind |-> "error", text |-> "", responseStatus |-> 0,
        message |-> "LimitExceededException: Rate exceeded", quota |-> TRUE ],
      [ kind |-> "error", text |-> "", responseStatus |-> 0,
        message |-> "Transcription job failed: Unknown error", quota |-> FALSE ],
      [ kind |-> "error", text |-> "", responseStatus |-> 0,
        message |-> "Transcription job timed out after 300000ms",
        quota |-> FALSE ] }

TextOutcome(t) ==
    [ kind |-> "text", text |-> t, responseStatus |-> 0, message |-> "",
      quota |-> FALSE ]

\* Every error one transcribeChunk call can throw, per provider.
ChunkErrors(p) ==
    {ChunkFileNotFound} \cup
    IF p = "elevenlabs"
    THEN {ElevenLabsError(f.status, f.detail) : f \in ElevenLabsFailures}
    ELSE AWSErrors

StopsOnAnyError(p, err) == TRUE

\* The test in the catch block of processChunks that stops the run:
\* error.response?.status === 429 || error.message?.includes('quota') in the
\* ElevenLabs service; the AWS service has no such test.
StopsOnError(p, err) ==
    IF p = "elevenlabs"
    THEN err.responseStatus = 429 \/ Includes(err.message, "quota")
    ELSE FALSE

\* if (chunkText && chunkText.trim())
HasText(t) == Truthy(t) /\ Truthy(Trim(t))

AppendChunkUntrimmed(full, t) ==
    full \o (IF Truthy(full) THEN " " ELSE "") \o t

\* job.fullTranscript += (job.fullTranscript ? ' ' : '') + chunkText.trim()
AppendChunk(full, t) ==
    full \o (IF Truthy(full) THEN " " ELSE "") \o Trim(t)

ProgressTruncated(k, n) == (100 * k) \div n

\* Math.round(((i + 1) / n) * 100), i + 1 = k.
Progress(k, n) == (200 * k + n) \div (2 * n)

\* saveTranscript run without another writer in between: findById, the
\* length test, save.
SaveTranscript(d, t, isPartial) ==
    IF GuardAccepts(IF isPartial THEN "batchPartialSave" ELSE "batchSave",
                    t, d.transcript)
    THEN [d EXCEPT !.transcript = t,
                   !.status = IF isPartial THEN "partial" ELSE @]
    ELSE d

NewJob(n) ==
    [present |-> TRUE, chunks |-> n, currentChunkIndex |-> 0,
     fullTranscript |-> ""]

UpdateEventNotFinal(t, final, progress, k, n) ==
    [ type |-> "TRANSCRIPT_UPDATE", transcript |-> t, isFinal |-> FALSE,
      progress |-> progress, processedChunks |-> k, totalChunks |-> n ]

\* The TRANSCRIPT_UPDATE message of processChunks.
UpdateEvent(t, final, progress, k, n) ==
    [ type |-> "TRANSCRIPT_UPDATE", transcript |-> t, isFinal |-> final,
      progress |-> progress, processedChunks |-> k, totalChunks |-> n ]

SendUnchecked(ev) == Append(events, ev)

\* if (job.clientWs && job.clientWs.readyState === 1) send
Send(ev) == IF wsOpen THEN Append(events, ev) ELSE events

\* The catch block of startBatchTranscription: save what the job holds as
\* partial, mark the consultation partial, rethrow.
BatchCatch(d, j) ==
    LET saved == IF j.present /\ Truthy(j.fullTranscript)
                 THEN SaveTranscript(d, j.fullTranscript, TRUE)
                 ELSE d
    IN  [saved EXCEPT !.status = "partial"]

\* startBatchTranscription up to the call of processChunks: normalizeAudio,
\* chunkAudio giving n >= 1 chunks, jobs.set, consultation set to processing.
StartBatchTranscription(n) ==
    /\ run.pc = "idle"
    /\ job' = NewJob(n)
    /\ db' = [db EXCEPT !.status = "processing", !.totalChunks = n,
                        !.processedChunks = 0, !.transcriptionProgress = 0]
    /\ run' = [pc |-> "loop", i |-> 0, n |-> n]
    /\ intermediates' = [normalized |-> TRUE, chunks |-> n]
    /\ UNCHANGED <<provider, returned, submitted, events, wsOpen, summaries>>
    /\ UNCHANGED outsideBatch

\* startBatchTranscription when normalizeAudio or chunkAudio throws, or no
\* chunk was created: the catch block runs on the job left in the map.
StartBatchFails ==
    /\ run.pc = "idle"
    /\ db' = BatchCatch(db, job)
    /\ run' = [run EXCEPT !.pc = "thrown"]
    /\ \E made \in BOOLEAN :
          intermediates' = [normalized |-> made, chunks |-> 0]
    /\ UNCHANGED <<provider, job, returned, submitted, events, wsOpen, summaries>>
    /\ UNCHANGED outsideBatch

SubmitChunkWithoutAwait ==
    /\ run.pc \in {"loop", "transcribing"}
    /\ Len(submitted) < run.n
    /\ submitted' = Append(submitted, Len(submitted) + 1)
    /\ run' = [run EXCEPT !.pc = "transcribing"]
    /\ UNCHANGED <<db, provider, job, returned, events, wsOpen, summaries, intermediates>>
    /\ UNCHANGED outsideBatch

\* processChunks: the loop hands chunk i to transcribeChunk and awaits it.
SubmitChunk ==
    /\ run.pc = "loop"
    /\ run.i < run.n
    /\ submitted' = Append(submitted, run.i + 1)
    /\ run' = [run EXCEPT !.pc = "transcribing"]
    /\ UNCHANGED <<db, provider, job, returned, events, wsOpen, summaries, intermediates>>
    /\ UNCHANGED outsideBatch

\* transcribeChunk returned a text: append, save, progress event.
ChunkTranscribed(t) ==
    /\ run.pc = "transcribing"
    /\ LET full == AppendChunk(job.fullTranscript, t)
           k    == run.i + 1
       IN  IF HasText(t)
           THEN /\ job' = [job EXCEPT !.fullTranscript = full,
                                      !.currentChunkIndex = k]
                /\ db' = SaveTranscript(db, full, FALSE)
                /\ events' = Send(UpdateEvent(full, FALSE, Progress(k, run.n),
                                              k, run.n))
           ELSE UNCHANGED <<job, db, events>>
    /\ returned' = Append(returned,
                          [out |-> TextOutcome(t), before |-> job.fullTranscript,
                           after |-> job'.fullTranscript])
    /\ run' = [run EXCEPT !.pc = "loop", !.i = @ + 1]
    /\ UNCHANGED <<provider, submitted, wsOpen, summaries, intermediates>>
    /\ UNCHANGED outsideBatch

\* transcribeChunk threw: the catch block of the loop saves the partial
\* transcript, marks the consultation partial, and either rethrows (the
\* catch block of startBatchTranscription then runs) or goes on.
ChunkFailed(err) ==
    /\ run.pc = "transcribing"
    /\ LET saved  == IF Truthy(job.fullTranscript)
                     THEN SaveTranscript(db, job.fullTranscript, TRUE)
                     ELSE db
           marked == [saved EXCEPT !.status = "partial",
                                   !.processedChunks = run.i]
       IN  IF StopsOnError(provider, err)
           THEN /\ db' = BatchCatch(marked, job)
                /\ run' = [run EXCEPT !.pc = "thrown"]
           ELSE /\ db' = marked
                /\ run' = [run EXCEPT !.pc = "loop", !.i = @ + 1]
    /\ returned' = Append(returned,
                          [out |-> err, before |-> job.fullTranscript,
                           after |-> job.fullTranscript])
    /\ UNCHANGED <<provider, job, submitted, events, wsOpen, summaries, intermediates>>
    /\ UNCHANGED outsideBatch

FinishChunksKeepsPartial ==
    /\ run.pc = "loop"
    /\ run.i = run.n
    /\ db' = IF db.status = "partial"
             THEN [db EXCEPT !.transcriptionProgress = 100]
             ELSE [db EXCEPT !.status = "completed", !.processedChunks = run.n,
                             !.transcriptionProgress = 100]
    /\ summaries' = IF Truthy(job.fullTranscript)
                       /\ Len(Trim(job.fullTranscript)) > 0
                    THEN Append(summaries, job.fullTranscript)
                    ELSE summaries
    /\ events' = Send(UpdateEvent(job.fullTranscript, TRUE, 100, run.n, run.n))
    /\ job' = NoJob
    /\ intermediates' = NoIntermediates
    /\ run' = [run EXCEPT !.pc = "done"]
    /\ UNCHANGED <<provider, returned, submitted, wsOpen>>
    /\ UNCHANGED outsideBatch

\* processChunks after the loop, then cleanup: consultation completed,
\* summaries triggered, final event, normalized file and chunk files
\* deleted, job removed from the map.
FinishChunks ==
    /\ run.pc = "loop"
    /\ run.i = run.n
    /\ db' = [db EXCEPT !.status = "completed", !.processedChunks = run.n,
                        !.transcriptionProgress = 100]
    /\ summaries' = IF Truthy(job.fullTranscript)
                       /\ Len(Trim(job.fullTranscript)) > 0
                    THEN Append(summaries, job.fullTranscript)
                    ELSE summaries
    /\ events' = Send(UpdateEvent(job.fullTranscript, TRUE, 100, run.n, run.n))
    /\ job' = NoJob
    /\ intermediates' = NoIntermediates
    /\ run' = [run EXCEPT !.pc = "done"]
    /\ UNCHANGED <<provider, returned, submitted, wsOpen>>
    /\ UNCHANGED outsideBatch

\* The client's socket closes.
ClientCloses ==
    /\ wsOpen
    /\ wsOpen' = FALSE
    /\ UNCHANGED <<db, provider, job, run, returned, submitted, events, summaries, intermediates>>
    /\ UNCHANGED outsideBatch

\* A consultation about to be batch transcribed: either nothing was stored
\* and no job exists, or the periodic ticks of the recording stored a text
\* and left their job in the map.
BatchInit ==
    /\ provider \in Providers
    /\ \E t \in {"", "tick"} :
          /\ db = NewConsultation(t)
          /\ job = IF t = "" THEN NoJob
                   ELSE [NewJob(0) EXCEPT !.fullTranscript = t]
    /\ run = IdleRun
    /\ returned = <<>>
    /\ intermediates = NoIntermediates
    /\ submitted = <<>>
    /\ events = <<>>
    /\ wsOpen \in BOOLEAN
    /\ summaries = <<>>
    /\ MergeIdle
    /\ StreamIdle
    /\ RecIdle
    /\ TickIdle
    /\ RouteIdle
    /\ ConnectIdle
    /\ AttachIdle
    /\ RegistryIdle

BatchNext ==
    \/ \E n \in 1..MaxChunks : StartBatchTranscription(n)
    \/ StartBatchFails
    \/ SubmitChunk
    \/ \E t \in AdapterTexts : ChunkTranscribed(t)
    \/ \E err \in ChunkErrors(provider) : ChunkFailed(err)
    \/ FinishChunks
    \/ ClientCloses

SpecBatch == BatchInit /\ [][BatchNext]_vars

-----------------------------------------------------------------------------
(* Claims on the batch pipeline *)

IsNonEmpty(t) == Len(t) > 0

RECURSIVE SpaceJoin(_)
SpaceJoin(texts) ==
    IF texts = <<>> THEN ""
    ELSE IF Len(texts) = 1 THEN texts[1]
    ELSE texts[1] \o " " \o SpaceJoin(Tail(texts))

\* The space-joined trimmed non-empty texts among the outcomes rs; a failed
\* call has the empty text.
JoinedResults(rs) ==
    SpaceJoin(SelectSeq([k \in 1..Len(rs) |-> Trim(rs[k].out.text)], IsNonEmpty))

RunHasJob == run.pc \in {"loop", "transcribing"} \/ (run.pc = "thrown" /\ run.n > 0)

C5_QuotaStopsRun ==
    \A k \in 1..Len(returned) :
        returned[k].out.quota =>
            /\ Len(submitted) = k
            /\ job.present
            /\ job.fullTranscript = JoinedResults(SubSeq(returned, 1, k - 1))
            /\ Truthy(job.fullTranscript) => db.transcript = job.fullTranscript
            /\ run.pc = "thrown"
            /\ db.status = "partial"

OtherError(r) == r.out.kind = "error" /\ ~r.out.quota

AllChunksHaveText ==
    \A k \in 1..Len(returned) :
        returned[k].out.kind = "text" /\ HasText(returned[k].out.text)

\* The events of the run that are not the closing one.
PerChunkEvents == SelectSeq(events, LAMBDA e : ~e.isFinal)

\* k / n * 100 rounded to the nearest integer, halves upwards.
RoundedPercent(k, n) ==
    CHOOSE r \in 0..100 : 2 * r * n - n <= 200 * k /\ 200 * k < 2 * r * n + n

\* C11: while the socket is open and every chunk so far has returned text,
\* the run has sent one event per processed chunk, in chunk order, the k-th
\* with progress round(k / n * 100) and processedChunks k; over three chunks
\* the progress values are 33, 67, 100.
C11_ProgressEvents ==
    (wsOpen /\ run.pc \in {"loop", "transcribing", "done"} /\ AllChunksHaveText) =>
        /\ Len(PerChunkEvents) = Len(returned)
        /\ \A k \in 1..Len(PerChunkEvents) :
              /\ PerChunkEvents[k].type = "TRANSCRIPT_UPDATE"
              /\ PerChunkEvents[k].processedChunks = k
              /\ PerChunkEvents[k].totalChunks = run.n
              /\ PerChunkEvents[k].progress = RoundedPercent(k, run.n)
        /\ (run.n = 3 /\ Len(returned) = 3) =>
              [k \in 1..3 |-> PerChunkEvents[k].progress] = <<33, 67, 100>>

\* A run over three chunks has ended with the socket open and three
\* per-chunk events sent.
C11_Witness ==
    /\ wsOpen /\ run.pc = "done" /\ run.n = 3
    /\ AllChunksHaveText
    /\ Len(PerChunkEvents) = 3
    /\ PerChunkEvents[2].progress = 67

\* C12: once the final pipeline has completed with every chunk returning
\* text, the stored transcript is the space-joined texts of its chunks, also
\* when the periodic ticks had stored a text before.
C12_FinalTranscriptStored ==
    (run.pc = "done" /\ AllChunksHaveText) =>
        db.transcript = JoinedResults(returned)

-----------------------------------------------------------------------------
(* Realtime mode: connection, Deepgram transcript handler, close handler *)

\* Transcript fragments Deepgram can deliver (interim or final).
Fragments == {"", "one", "one two"}

InitialEvent(t) == [type |-> "TRANSCRIPT_UPDATE", transcript |-> t]

StreamEvent(t, final) ==
    [type |-> "TRANSCRIPT_UPDATE", transcript |-> t, isFinal |-> final]

ErrorEvent(e) == [type |-> "TRANSCRIPT_ERROR", error |-> e]

\* wss.on('connection') for a consultation that is found and in_progress and
\* is routed to realtime mode: the stored transcript is sent if there is one,
\* and startSession registers a session with an empty transcript.
Attach ==
    /\ stream.phase \in {"none", "closed"}
    /\ stream.connections < MaxConnections
    /\ db.exists /\ db.status = "in_progress"
    /\ wsOpen' = TRUE
    /\ events' = IF Truthy(db.transcript)
                 THEN <<InitialEvent(db.transcript)>> ELSE <<>>
    /\ stream' = [phase |-> "recording", connections |-> stream.connections + 1,
                  fragments |-> stream.fragments,
                  session |-> [present |-> TRUE, transcript |-> "",
                               interimTranscript |-> ""],
                  loaded |-> "", received |-> <<>>, finalTranscript |-> ""]
    /\ UNCHANGED <<db, summaries>>
    /\ UNCHANGED outsideStream

OnTranscriptKeepsInterim(ses, text, isFinal) ==
    IF ~Truthy(text) THEN ses
    ELSE IF isFinal
    THEN [ses EXCEPT !.transcript = @ \o ses.interimTranscript \o text \o " ",
                     !.interimTranscript = ""]
    ELSE [ses EXCEPT !.interimTranscript = text]

\* The session after the Transcript handler has taken one fragment.
OnTranscript(ses, text, isFinal) ==
    IF ~Truthy(text) THEN ses
    ELSE IF isFinal
    THEN [ses EXCEPT !.transcript = @ \o text \o " ",
                     !.interimTranscript = ""]
    ELSE [ses EXCEPT !.interimTranscript = text]

\* connection.on(Transcript): a final fragment is appended with a space and
\* clears the interim one, an interim fragment replaces the interim one; the
\* client gets the trimmed transcript followed by the interim fragment.
DeepgramTranscript(text, isFinal) ==
    /\ stream.phase \in {"recording", "closing"}
    /\ stream.session.present
    /\ stream.fragments < MaxFragments
    /\ LET ses == stream.session
           new == OnTranscript(ses, text, isFinal)
           currentTranscript == new.transcript \o new.interimTranscript
       IN  /\ stream' = [stream EXCEPT !.session = new, !.fragments = @ + 1,
                            !.received = Append(@, [kind |-> "transcript",
                                text |-> text, isFinal |-> isFinal])]
           /\ events' = IF Truthy(text)
                        THEN Send(StreamEvent(Trim(currentTranscript), isFinal))
                        ELSE events
    /\ UNCHANGED <<db, wsOpen, summaries>>
    /\ UNCHANGED outsideStream

\* connection.on(Error): the client is told, the session is kept.
DeepgramError ==
    /\ stream.phase = "recording"
    /\ stream.session.present
    /\ stream.fragments < MaxFragments
    /\ stream' = [stream EXCEPT !.fragments = @ + 1,
                     !.received = Append(@, [kind |-> "error", text |-> "",
                                             isFinal |-> FALSE])]
    /\ events' = Send(ErrorEvent("Transcription error occurred"))
    /\ UNCHANGED <<db, wsOpen, summaries>>
    /\ UNCHANGED outsideStream

\* ws.on('close') up to its first await: the consultation is loaded.
StreamCloseBegins ==
    /\ stream.phase = "recording"
    /\ wsOpen' = FALSE
    /\ stream' = [stream EXCEPT !.phase = "closing", !.loaded = db.transcript]
    /\ UNCHANGED <<db, events, summaries>>
    /\ UNCHANGED outsideStream

EndSessionDropsOnThrow(ses, finishThrows) ==
    IF ~ses.present THEN ""
    ELSE IF finishThrows THEN "" ELSE Trim(ses.transcript)

\* What endSession returns: '' without a session, else the trimmed
\* transcript, from the try block or from the catch block when
\* deepgramConnection.finish() throws (as it may on a vendor connection
\* that has already closed; the Close handler itself changes nothing).
EndSession(ses, finishThrows) ==
    IF ~ses.present THEN ""
    ELSE IF finishThrows THEN Trim(ses.transcript) ELSE Trim(ses.transcript)

\* ws.on('close'), realtime branch, after endSession has returned the
\* trimmed session transcript and removed the session: length test against
\* the loaded copy, save, summary generation.
StreamCloseSaves(finishThrows) ==
    /\ stream.phase = "closing"
    /\ LET finalTranscript == EndSession(stream.session, finishThrows)
           accepted == GuardAccepts("streamClose", finalTranscript, stream.loaded)
       IN  /\ db' = IF accepted THEN [db EXCEPT !.transcript = finalTranscript]
                    ELSE db
           /\ summaries' = IF accepted THEN Append(summaries, finalTranscript)
                           ELSE summaries
           /\ stream' = [stream EXCEPT !.phase = "closed", !.session = NoSession,
                                       !.finalTranscript = finalTranscript]
    /\ UNCHANGED <<events, wsOpen>>
    /\ UNCHANGED outsideStream

\* The body of generateSummariesInBackground for a request made earlier
\* stores the summaries. (It changes nothing when summaries exist, when the
\* transcript is too short or when the note service throws.)
SummaryGenerated ==
    /\ summaries # <<>>
    /\ db.exists /\ ~db.doctorSummaryEn
    /\ db' = [db EXCEPT !.doctorSummaryEn = TRUE]
    /\ UNCHANGED <<stream, events, wsOpen, summaries>>
    /\ UNCHANGED outsideStream

StreamInit ==
    /\ db = NewConsultation("")
    /\ events = <<>>
    /\ wsOpen = FALSE
    /\ summaries = <<>>
    /\ provider = "deepgram"
    /\ job = NoJob
    /\ run = IdleRun
    /\ returned = <<>>
    /\ intermediates = NoIntermediates
    /\ submitted = <<>>
    /\ MergeIdle
    /\ StreamIdle
    /\ RecIdle
    /\ TickIdle
    /\ RouteIdle
    /\ ConnectIdle
    /\ AttachIdle
    /\ RegistryIdle

StreamNext ==
    \/ Attach
    \/ \E text \in Fragments, isFinal \in BOOLEAN : DeepgramTranscript(text, isFinal)
    \/ DeepgramError
    \/ StreamCloseBegins
    \/ \E finishThrows \in BOOLEAN : StreamCloseSaves(finishThrows)
    \/ SummaryGenerated

SpecStream == StreamInit /\ [][StreamNext]_vars

\* C3: on one client connection the transcript of a TRANSCRIPT_UPDATE is
\* never shorter than that of the TRANSCRIPT_UPDATE sent just before it; only
\* a TRANSCRIPT_ERROR in between may precede a shorter text.
C3_ClientTranscriptGrows ==
    \A i \in 1..(Len(events) - 1) :
        (events[i].type = "TRANSCRIPT_UPDATE" /\ events[i + 1].type = "TRANSCRIPT_UPDATE")
            => Len(events[i + 1].transcript) >= Len(events[i].transcript)

\* A final fragment with text.
IsFinalFragment(f) == f.kind = "transcript" /\ f.isFinal /\ Len(f.text) > 0

\* An interim or final fragment with text.
IsTextFragment(f) == f.kind = "transcript" /\ Len(f.text) > 0

\* The texts of the final fragments the session has received, in order.
FinalTexts ==
    LET finals == SelectSeq(stream.received, IsFinalFragment)
    IN  [k \in 1..Len(finals) |-> finals[k].text]

\* The interim fragment still standing: the last fragment with text if it
\* was an interim one.
StandingInterim ==
    LET texts == SelectSeq(stream.received, IsTextFragment)
    IN  IF texts = <<>> \/ texts[Len(texts)].isFinal THEN ""
        ELSE texts[Len(texts)].text

\* C23: the session's transcript is the final fragments with text received
\* so far, in arrival order, each followed by a space; the interim
\* transcript is the last fragment if that was an interim one and empty
\* otherwise; what endSession returned is the space-joined final fragments.
C23_TranscriptIsFinalFragments ==
    /\ stream.session.present =>
          /\ stream.session.transcript =
                 (IF FinalTexts = <<>> THEN "" ELSE SpaceJoin(FinalTexts) \o " ")
          /\ stream.session.interimTranscript = StandingInterim
    /\ stream.phase = "closed" => stream.finalTranscript = SpaceJoin(FinalTexts)

\* An interim fragment, a final one and another interim one have arrived.
C23_Witness ==
    /\ stream.session.present
    /\ Len(stream.received) = 3
    /\ IsTextFragment(stream.received[1]) /\ ~stream.received[1].isFinal
    /\ IsFinalFragment(stream.received[2])
    /\ IsTextFragment(stream.received[3]) /\ ~stream.received[3].isFinal
    /\ stream.session.transcript = "one two "
    /\ stream.session.interimTranscript = "one"

\* C24: once the close handler has ended the session, the session is out of
\* the registry, endSession has returned the trimmed final fragments whether
\* or not finish() threw and whatever vendor errors came before, and that
\* text is stored when the length test of the close handler accepts it.
C24_EndSessionReturnsTranscript ==
    stream.phase = "closed" =>
        /\ ~stream.session.present
        /\ stream.finalTranscript = SpaceJoin(FinalTexts)
        /\ GuardAccepts("streamClose", stream.finalTranscript, stream.loaded)
              => db.transcript = stream.finalTranscript

\* A session that received a final fragment and then a vendor error has
\* been ended and its text stored.
C24_Witness ==
    /\ stream.phase = "closed"
    /\ Len(stream.received) = 2
    /\ IsFinalFragment(stream.received[1])
    /\ stream.received[2].kind = "error"
    /\ stream.finalTranscript = "one two"
    /\ db.transcript = "one two"

\* C25: a step in which the close handler ends a streaming session, leaving
\* a stored transcript that is not empty for a consultation without a
\* summary, hands a text to summary generation.
C25_SummaryTriggeredOnClose ==
    [][(stream.phase = "closing" /\ stream'.phase = "closed"
          /\ Len(Trim(db'.transcript)) > 0 /\ ~db.doctorSummaryEn)
            => Len(summaries') = Len(summaries) + 1]_vars

-----------------------------------------------------------------------------
(* Audio recording: write stream, snapshot, finalisation of the WAV file *)

HeaderSize == 44
ByteRate == 32000
SnapshotFloor == 16000

\* Sizes in bytes of the PCM frames a client sends.
FrameSizes == {1, 15999, 16000}

\* Buffer.writeUInt32LE and Buffer.writeUInt16LE.
UInt32LE(v) ==
    <<v % 256, (v \div 256) % 256, (v \div 65536) % 256, (v \div 16777216) % 256>>

UInt16LE(v) == <<v % 256, (v \div 256) % 256>>

\* Buffer.write of the four ASCII tags.
TagRIFF == <<82, 73, 70, 70>>
TagWAVE == <<87, 65, 86, 69>>
TagFmt == <<102, 109, 116, 32>>
TagData == <<100, 97, 116, 97>>

\* Buffer.alloc(44).
PlaceholderHeader == [i \in 1..HeaderSize |-> 0]

RECURSIVE SumSizes(_)
SumSizes(chunks) ==
    IF chunks = <<>> THEN 0 ELSE Head(chunks).size + SumSizes(Tail(chunks))

\* fileData.length of the recording file.
FileLength(f) == Len(f.header) + SumSizes(f.data)

\* The header createSnapshot builds for file data of the given length.
SnapshotHeader(length) ==
    TagRIFF \o UInt32LE(length - 8) \o TagWAVE
        \o TagFmt \o UInt32LE(16) \o UInt16LE(1) \o UInt16LE(1)
        \o UInt32LE(16000) \o UInt32LE(32000) \o UInt16LE(2) \o UInt16LE(16)
        \o TagData \o UInt32LE(length - HeaderSize)

FinalHeaderRiffFromData(length) ==
    TagRIFF \o UInt32LE(length - HeaderSize) \o TagWAVE
        \o TagFmt \o UInt32LE(16) \o UInt16LE(1) \o UInt16LE(1)
        \o UInt32LE(16000) \o UInt32LE(32000) \o UInt16LE(2) \o UInt16LE(16)
        \o TagData \o UInt32LE(length - HeaderSize)

\* The header stopRecording builds for file data of the given length.
FinalHeader(length) ==
    TagRIFF \o UInt32LE(length - 8) \o TagWAVE
        \o TagFmt \o UInt32LE(16) \o UInt16LE(1) \o UInt16LE(1)
        \o UInt32LE(16000) \o UInt32LE(32000) \o UInt16LE(2) \o UInt16LE(16)
        \o TagData \o UInt32LE(length - HeaderSize)

\* startRecording: a session whose stream holds the placeholder header; the
\* stream writes to the file asynchronously.
StartedRecording ==
    [present |-> TRUE, processedDuration |-> 0, chunksReceived |-> 0,
     pending |-> <<[kind |-> "header", seq |-> 0, size |-> HeaderSize]>>,
     written |-> <<>>]

\* createSnapshot: nothing below the floor, otherwise a copy of the file
\* with a computed header.
SnapshotOf(session, f) ==
    LET fileSize == FileLength(f)
        none == [fileSize |-> fileSize, created |-> FALSE,
                 header |-> <<>>, data |-> <<>>]
    IN  IF ~session.present THEN none
        ELSE IF fileSize < HeaderSize + SnapshotFloor THEN none
        ELSE IF fileSize - HeaderSize <= 0 THEN none
        ELSE [fileSize |-> fileSize, created |-> TRUE,
              header |-> SnapshotHeader(fileSize), data |-> f.data]

\* writeChunk: the frame is handed to the write stream.
WriteChunk(size) ==
    /\ rec.present
    /\ stop.pc = "idle"
    /\ rec.chunksReceived < MaxWrites
    /\ LET chunk == [kind |-> "pcm", seq |-> rec.chunksReceived + 1, size |-> size]
       IN  rec' = [rec EXCEPT !.pending = Append(@, chunk),
                              !.written = Append(@, chunk),
                              !.chunksReceived = @ + 1]
    /\ UNCHANGED <<file, stop, snapshots>>
    /\ UNCHANGED outsideWav

\* The write stream completes its oldest queued write.
FlushWrite ==
    /\ rec.pending # <<>>
    /\ stop.pc \in {"idle", "ending"}
    /\ LET block == Head(rec.pending)
       IN  file' = IF block.kind = "header"
                   THEN [file EXCEPT !.header = PlaceholderHeader]
                   ELSE [file EXCEPT !.data = Append(@, block)]
    /\ rec' = [rec EXCEPT !.pending = Tail(@)]
    /\ UNCHANGED <<stop, snapshots>>
    /\ UNCHANGED outsideWav

\* createSnapshot up to the result of fs.stat: below the floor it returns
\* null, otherwise it goes on to read the file. chunksAtStat and chunksAtRead
\* are history: the session's chunksReceived at the two reads of the file.
CreateSnapshot ==
    /\ Len(snapshots) < MaxSnapshots
    /\ rec.present
    /\ LET seen == SnapshotOf(rec, file)
       IN  snapshots' = Append(snapshots,
               [pc |-> IF seen.created THEN "stat" ELSE "done",
                fileSize |-> seen.fileSize, created |-> FALSE,
                header |-> <<>>, data |-> <<>>,
                chunksAtStat |-> rec.chunksReceived,
                chunksAtRead |-> rec.chunksReceived])
    /\ UNCHANGED <<rec, file, stop>>
    /\ UNCHANGED outsideWav

SnapshotCopiesInPlace(i) ==
    /\ snapshots[i].pc = "stat"
    /\ LET length == FileLength(file)
       IN  /\ snapshots' = [snapshots EXCEPT ![i] =
                  [@ EXCEPT !.pc = "done", !.created = length - HeaderSize > 0,
                            !.header = IF length - HeaderSize > 0
                                       THEN SnapshotHeader(length) ELSE <<>>,
                            !.data = IF length - HeaderSize > 0
                                     THEN file.data ELSE <<>>,
                            !.chunksAtRead = rec.chunksReceived]]
           /\ file' = IF length - HeaderSize > 0
                      THEN [file EXCEPT !.header = SnapshotHeader(length)]
                      ELSE file
    /\ UNCHANGED <<rec, stop>>
    /\ UNCHANGED outsideWav

\* createSnapshot after fs.stat: the file is read as it is now, a header is
\* computed for what was read, and both are written to a file of their own
\* (snapshotPath); without data after the header it returns null.
SnapshotCopies(i) ==
    /\ snapshots[i].pc = "stat"
    /\ LET length == FileLength(file)
       IN  snapshots' = [snapshots EXCEPT ![i] =
               [@ EXCEPT !.pc = "done", !.created = length - HeaderSize > 0,
                         !.header = IF length - HeaderSize > 0
                                    THEN SnapshotHeader(length) ELSE <<>>,
                         !.data = IF length - HeaderSize > 0
                                  THEN file.data ELSE <<>>,
                         !.chunksAtRead = rec.chunksReceived]]
    /\ UNCHANGED <<rec, file, stop>>
    /\ UNCHANGED outsideWav

\* stopRecording: writeStream.end().
StopRecordingEnds ==
    /\ rec.present
    /\ stop.pc = "idle"
    /\ stop' = [stop EXCEPT !.pc = "ending"]
    /\ UNCHANGED <<rec, file, snapshots>>
    /\ UNCHANGED outsideWav

\* stopRecording, in the callback of end(): the file is read, the header is
\* built and writeFile starts by truncating the file.
StopRecordingReads ==
    /\ stop.pc = "ending"
    /\ rec.pending = <<>>
    /\ LET length == FileLength(file)
       IN  IF length - HeaderSize <= 0
           THEN /\ stop' = [stop EXCEPT !.pc = "rejected"]
                /\ file' = file
           ELSE /\ stop' = [pc |-> "rewriting", header |-> FinalHeader(length),
                            data |-> file.data]
                /\ file' = NoFile
    /\ UNCHANGED <<rec, snapshots>>
    /\ UNCHANGED outsideWav

\* stopRecording: writeFile completes, the session is deleted, the path is
\* returned.
StopRecordingResolves ==
    /\ stop.pc = "rewriting"
    /\ file' = [header |-> stop.header, data |-> stop.data]
    /\ rec' = [rec EXCEPT !.present = FALSE]
    /\ stop' = [stop EXCEPT !.pc = "resolved"]
    /\ UNCHANGED snapshots
    /\ UNCHANGED outsideWav

\* The largest currentDuration of the ticks that have ended as too short.
SkippedUpTo ==
    LET ends == {ticks[i].currentDuration : i \in {k \in 1..Len(ticks) :
                                              ticks[k].pc = "skipped"}}
    IN  IF ends = {} THEN 0 ELSE CHOOSE m \in ends : \A e \in ends : e <= m

\* ws.on('close'), batch branch, after stopRecording has resolved: the
\* session is looked up again, a session whose processedDuration is above
\* zero gets processPartialRecording for the final segment, and
\* startBatchTranscription is called.
CloseStartsFinal ==
    /\ stop.pc = "resolved"
    /\ stop' = [stop EXCEPT !.pc = "final"]
    /\ ticks' = IF rec.present /\ rec.processedDuration > 0
                THEN Append(ticks, [pc |-> "finalsegment",
                                    currentDuration |-> elapsed,
                                    start |-> rec.processedDuration,
                                    snapBytes |-> SumSizes(file.data),
                                    skippedUpTo |-> SkippedUpTo,
                                    vendorFailed |-> FALSE])
                ELSE ticks
    /\ UNCHANGED <<db, job, events, wsOpen, rec, file, elapsed, timer>>
    /\ UNCHANGED outsideTick

CloseCancelsKeepsSession ==
    /\ stop.pc = "rejected"
    /\ stop' = [stop EXCEPT !.pc = "cancelled"]
    /\ UNCHANGED <<rec, file, snapshots>>
    /\ UNCHANGED outsideWav

\* ws.on('close'), batch branch, after stopRecording has thrown or rejected:
\* the catch calls cancelRecording, which destroys the stream and deletes
\* the session.
CloseCancels ==
    /\ stop.pc = "rejected"
    /\ stop' = [stop EXCEPT !.pc = "cancelled"]
    /\ rec' = IF rec.present
              THEN [rec EXCEPT !.present = FALSE, !.pending = <<>>]
              ELSE rec
    /\ UNCHANGED <<file, snapshots>>
    /\ UNCHANGED outsideWav

WavInit ==
    /\ db = NewConsultation("")
    /\ MergeIdle
    /\ BatchIdle
    /\ StreamIdle
    /\ rec = StartedRecording
    /\ file = NoFile
    /\ stop = StopIdle
    /\ snapshots = <<>>
    /\ TickIdle
    /\ RouteIdle
    /\ ConnectIdle
    /\ AttachIdle
    /\ RegistryIdle

WavNext ==
    \/ \E size \in FrameSizes : WriteChunk(size)
    \/ FlushWrite
    \/ CreateSnapshot
    \/ \E i \in 1..Len(snapshots) : SnapshotCopies(i)
    \/ StopRecordingEnds
    \/ StopRecordingReads
    \/ StopRecordingResolves
    \/ CloseStartsFinal
    \/ CloseCancels

SpecWav == WavInit /\ [][WavNext]_vars

\* PCM data bytes in the recording file when createSnapshot looked at it.
DataBytesSeen(snap) == snap.fileSize - HeaderSize

\* C9: createSnapshot returns no path while fewer than 32000 data bytes have
\* been written, and returns a snapshot at exactly 32000 data bytes.
C9_SnapshotFloorOneSecond ==
    \A i \in 1..Len(snapshots) :
        snapshots[i].pc = "done" =>
            /\ DataBytesSeen(snapshots[i]) < 32000 => ~snapshots[i].created
            /\ DataBytesSeen(snapshots[i]) = 32000 => snapshots[i].created

\* Buffer.readUInt32LE at a byte offset.
ReadUInt32LE(h, offset) ==
    h[offset + 1] + 256 * h[offset + 2] + 65536 * h[offset + 3]
        + 16777216 * h[offset + 4]

IsPrefix(a, b) == Len(a) <= Len(b) /\ a = SubSeq(b, 1, Len(a))

\* C10: once stopRecording has returned for a recording of N > 0 data bytes,
\* the file is a 44-byte header with data size N and RIFF size N + 36
\* followed by the frames in write order; every snapshot carries the header
\* stopRecording would build for the data bytes the snapshot holds.
C10_HeaderMatchesData ==
    /\ stop.pc = "resolved" =>
          LET N == SumSizes(rec.written)
          IN  /\ N > 0
              /\ Len(file.header) = 44
              /\ ReadUInt32LE(file.header, 40) = N
              /\ ReadUInt32LE(file.header, 4) = N + 36
              /\ file.data = rec.written
    /\ \A i \in 1..Len(snapshots) :
          snapshots[i].created =>
              LET M == SumSizes(snapshots[i].data)
              IN  /\ Len(snapshots[i].header) = 44
                  /\ ReadUInt32LE(snapshots[i].header, 40) = M
                  /\ ReadUInt32LE(snapshots[i].header, 4) = M + 36
                  /\ snapshots[i].header = FinalHeader(M + 44)
                  /\ IsPrefix(snapshots[i].data, rec.written)

C10_Witness ==
    /\ stop.pc = "resolved"
    /\ SumSizes(rec.written) > 256
    /\ \E i \in 1..Len(snapshots) : snapshots[i].created

\* C32: stopRecording rejects exactly when no data byte was written; the
\* close handler then cancels the recording, which leaves no session in the
\* registry, and it starts neither a pass over a final segment nor
\* startBatchTranscription, then or later.
C32_EmptyRecordingIsCancelled ==
    /\ [](stop.pc \in {"rejected", "cancelled"} => SumSizes(rec.written) = 0)
    /\ [](stop.pc \in {"rewriting", "resolved", "final"} => SumSizes(rec.written) > 0)
    /\ [](stop.pc = "cancelled" => ~rec.present)
    /\ [][stop.pc \in {"rejected", "cancelled"}
            => /\ stop'.pc \in {stop.pc, "cancelled"}
               /\ ticks' = ticks
               /\ file' = file]_vars

\* The close handler has cancelled a recording that got no frame, after a
\* snapshot attempt that found nothing to copy.
C32_Witness ==
    /\ stop.pc = "cancelled"
    /\ ~rec.present
    /\ rec.chunksReceived = 0
    /\ file = [header |-> PlaceholderHeader, data |-> <<>>]
    /\ Len(snapshots) = 1

\* C33: a step of createSnapshot leaves the session, its write stream and the
\* recording file as they were, and the file stopRecording has finalized
\* holds every frame that was written, in order, whatever snapshots were in
\* progress when the frames arrived.
C33_SnapshotDoesNotTouchRecording ==
    /\ [][snapshots' # snapshots
            => /\ rec' = rec
               /\ file' = file
               /\ stop' = stop]_vars
    /\ [](stop.pc \in {"resolved", "final"}
            => /\ file.data = rec.written
               /\ Len(rec.written) = rec.chunksReceived)

\* A frame was written between the two reads of a snapshot that was then
\* created without it, and the finalized file holds that frame.
C33_Witness ==
    /\ stop.pc = "resolved"
    /\ file.data = rec.written
    /\ \E i \in 1..Len(snapshots) :
          /\ snapshots[i].created
          /\ snapshots[i].chunksAtRead > snapshots[i].chunksAtStat
          /\ Len(snapshots[i].data) < Len(rec.written)

-----------------------------------------------------------------------------
(* Batch mode while recording: the 30-second transcription interval *)

IntervalSeconds == 30
MinDurationBytes == 32000

\* Sizes in bytes of what a client sends between two steps: half a second
\* or thirty seconds of audio.
TickFrameSizes == {16000, 960000}

\* Texts the vendor returns for the segment of one tick; "" also stands for
\* a segment whose chunk errors were swallowed.
TickTexts == {"", "one"}

PartialEvent(t) ==
    [type |-> "TRANSCRIPT_UPDATE", transcript |-> t, isFinal |-> FALSE]

\* Bytes of the snapshot from startTimeSeconds to its end (ffmpeg -ss).
SegmentBytes(snapBytes, start) ==
    IF snapBytes > start * ByteRate THEN snapBytes - start * ByteRate ELSE 0

\* segmentDuration < MIN_DURATION_SECONDS
TooShort(snapBytes, start) == SegmentBytes(snapBytes, start) < MinDurationBytes

\* setInterval fires: thirty seconds have passed; the callback runs up to
\* its first await. Nothing stops it from firing while an earlier callback
\* is still awaiting.
TimerFires ==
    /\ timer
    /\ Len(ticks) < MaxTicks
    /\ elapsed' = elapsed + IntervalSeconds
    /\ LET currentDuration == elapsed'
           tick == [pc |-> "snapshot", currentDuration |-> currentDuration,
                    start |-> 0, snapBytes |-> 0, skippedUpTo |-> 0,
                    vendorFailed |-> FALSE]
       IN  IF ~rec.present
           THEN /\ timer' = FALSE
                /\ ticks' = Append(ticks, [tick EXCEPT !.pc = "nosession"])
           ELSE /\ timer' = timer
                /\ ticks' = Append(ticks,
                       IF currentDuration - rec.processedDuration >= 30
                       THEN tick ELSE [tick EXCEPT !.pc = "notdue"])
    /\ UNCHANGED <<db, job, events, wsOpen, rec, file, stop>>
    /\ UNCHANGED outsideTick

\* createSnapshot returns; with a snapshot, processPartialRecording is
\* called with the processedDuration the session holds now.
TickSnapshots(t) ==
    /\ ticks[t].pc = "snapshot"
    /\ LET snap == SnapshotOf(rec, file)
       IN  ticks' = [ticks EXCEPT ![t] =
                IF ~snap.created THEN [@ EXCEPT !.pc = "nosnapshot"]
                ELSE [@ EXCEPT !.pc = "partial",
                               !.start = rec.processedDuration,
                               !.snapBytes = SumSizes(snap.data),
                               !.skippedUpTo = SkippedUpTo]]
    /\ UNCHANGED <<db, job, events, wsOpen, rec, file, stop, elapsed, timer>>
    /\ UNCHANGED outsideTick

\* processPartialRecording returns: the segment was too short, or its text
\* was appended to the job, saved and sent; processedDuration becomes the
\* currentDuration the callback computed when it fired.
TickPartialReturns(t, text) ==
    /\ ticks[t].pc = "partial"
    /\ LET short == TooShort(ticks[t].snapBytes, ticks[t].start)
           old == IF job.present THEN job ELSE NewJob(0)
           full == AppendChunk(old.fullTranscript, text)
       IN  IF short \/ ~HasText(text)
           THEN /\ ticks' = [ticks EXCEPT ![t].pc =
                                IF short THEN "skipped" ELSE "transcribed"]
                /\ job' = IF short THEN job ELSE old
                /\ UNCHANGED <<db, events>>
           ELSE /\ ticks' = [ticks EXCEPT ![t].pc = "transcribed"]
                /\ job' = [old EXCEPT !.fullTranscript = full]
                /\ db' = IF db.exists THEN SaveTranscript(db, full, FALSE) ELSE db
                /\ events' = Send(PartialEvent(full))
    /\ rec' = [rec EXCEPT !.processedDuration = ticks[t].currentDuration]
    /\ UNCHANGED <<wsOpen, file, stop, elapsed, timer>>
    /\ UNCHANGED outsideTick

\* ElevenLabsBatchService.processPartialRecording when transcribeChunk
\* throws: the catch inside its chunk loop logs and goes on, the call
\* returns, and the interval callback sets processedDuration as after a
\* transcription.
TickPartialSwallows(t) ==
    /\ ticks[t].pc = "partial"
    /\ provider = "elevenlabs"
    /\ ~TooShort(ticks[t].snapBytes, ticks[t].start)
    /\ ticks' = [ticks EXCEPT ![t].pc = "transcribed", ![t].vendorFailed = TRUE]
    /\ job' = IF job.present THEN job ELSE NewJob(0)
    /\ rec' = [rec EXCEPT !.processedDuration = ticks[t].currentDuration]
    /\ UNCHANGED <<db, events, wsOpen, file, stop, elapsed, timer>>
    /\ UNCHANGED outsideTick

\* processPartialRecording throws something other than 'too small': the
\* outer catch looks the consultation up and, when it has no transcript,
\* calls cancelRecording and then findByIdAndDelete, which it awaits.
TickPartialThrows(t) ==
    /\ ticks[t].pc = "partial"
    /\ IF db.exists /\ Len(Trim(db.transcript)) = 0
       THEN /\ ticks' = [ticks EXCEPT ![t].pc = "deleting"]
            /\ rec' = IF rec.present
                      THEN [rec EXCEPT !.present = FALSE, !.pending = <<>>]
                      ELSE rec
       ELSE /\ ticks' = [ticks EXCEPT ![t].pc = "failed"]
            /\ UNCHANGED rec
    /\ UNCHANGED <<db, job, events, wsOpen, file, stop, elapsed, timer>>
    /\ UNCHANGED outsideTick

\* The outer catch after findByIdAndDelete: the consultation is gone, the
\* interval is cleared, the error is sent and the socket closed.
TickDeletes(t) ==
    /\ ticks[t].pc = "deleting"
    /\ ticks' = [ticks EXCEPT ![t].pc = "deleted"]
    /\ db' = [db EXCEPT !.exists = FALSE]
    /\ timer' = FALSE
    /\ events' = Send(ErrorEvent(
           "Transcription failed and consultation was automatically deleted"))
    /\ wsOpen' = FALSE
    /\ UNCHANGED <<job, rec, file, stop, elapsed>>
    /\ UNCHANGED outsideTick

\* ws.on('close'), batch branch: the interval is cleared and stopRecording
\* is called.
BatchModeCloses ==
    /\ wsOpen
    /\ wsOpen' = FALSE
    /\ timer' = FALSE
    /\ stop' = IF db.exists /\ rec.present /\ stop.pc = "idle"
               THEN [stop EXCEPT !.pc = "ending"] ELSE stop
    /\ UNCHANGED <<db, job, events, rec, file, elapsed, ticks>>
    /\ UNCHANGED outsideTick

\* The recording steps, with the tick state left alone.
TickRecordingStep ==
    \/ /\ rec.chunksReceived < MaxTickWrites
       /\ \E size \in TickFrameSizes : WriteChunk(size)
    \/ FlushWrite
    \/ StopRecordingReads
    \/ StopRecordingResolves
    \/ CloseCancels

\* handleBatchMode has started the recording and set the interval.
TickInit ==
    /\ db = NewConsultation("")
    /\ MergeIdle
    /\ StreamIdle
    /\ provider = "elevenlabs"
    /\ job = NoJob
    /\ run = IdleRun
    /\ returned = <<>>
    /\ intermediates = NoIntermediates
    /\ submitted = <<>>
    /\ events = <<>>
    /\ wsOpen = TRUE
    /\ summaries = <<>>
    /\ rec = StartedRecording
    /\ file = NoFile
    /\ stop = StopIdle
    /\ snapshots = <<>>
    /\ elapsed = 0
    /\ timer = TRUE
    /\ ticks = <<>>
    /\ RouteIdle
    /\ ConnectIdle
    /\ AttachIdle
    /\ RegistryIdle

TickNext ==
    \/ TimerFires
    \/ \E t \in 1..Len(ticks) : TickSnapshots(t)
    \/ \E t \in 1..Len(ticks), text \in TickTexts : TickPartialReturns(t, text)
    \/ \E t \in 1..Len(ticks) : TickPartialSwallows(t)
    \/ \E t \in 1..Len(ticks) : TickPartialThrows(t)
    \/ \E t \in 1..Len(ticks) : TickDeletes(t)
    \/ BatchModeCloses
    \/ CloseStartsFinal
    \/ TickRecordingStep

SpecTick == TickInit /\ [][TickNext]_vars

\* C7: when a tick calls processPartialRecording, its start time is not
\* earlier than the time up to which a tick that already ended as too short
\* had covered.
C7_SkippedSpanNotRetried ==
    \A t \in 1..Len(ticks) :
        ticks[t].pc \in {"partial", "skipped", "transcribed", "failed",
                        "deleting", "deleted"}
            => ticks[t].start >= ticks[t].skippedUpTo

\* C8: processedDuration never decreases from one state to the next and is
\* never more than the elapsed recording time.
C8_ProcessedDurationMonotone ==
    [][/\ rec'.processedDuration >= rec.processedDuration
       /\ rec'.processedDuration <= elapsed']_vars

\* C15: a step in which a tick fails leaves the consultation in the store,
\* the recording session in the registry, the interval set and the socket as
\* it was.
C15_TickFailureContained ==
    [][(\E t \in 1..Len(ticks) :
            ticks[t].pc = "partial" /\ ticks'[t].pc \in {"failed", "deleting"})
          => /\ db'.exists = db.exists
             /\ rec'.present = rec.present
             /\ timer' = timer
             /\ wsOpen' = wsOpen]_vars

\* cancelRecording has been called for the recording.
Cancelled ==
    \/ stop.pc = "cancelled"
    \/ \E t \in 1..Len(ticks) : ticks[t].pc \in {"deleting", "deleted"}

\* C34: once cancelRecording has been called the session is not in the
\* registry, the recording file is never rewritten, and no step changes the
\* stored transcript, whatever tick was in flight at the cancel.
C34_NothingPersistedAfterCancel ==
    /\ [](Cancelled => ~rec.present)
    /\ [][Cancelled => (file' = file /\ db'.transcript = db.transcript)]_vars

-----------------------------------------------------------------------------
(* Provider routing: connect time, periodic processing, close time *)

Languages == {"bn", "en", "th", "ms", "auto"}

CloudProviders == {"aws", "deepgram", "elevenlabs"}

\* TranscriptionConfigSchema.statics.initializeDefaults
DefaultProvider(lang) ==
    IF lang \in {"en", "auto"} THEN "deepgram" ELSE "elevenlabs"

DefaultEntry(lang) ==
    [present |-> TRUE, cloudProvider |-> DefaultProvider(lang), enabled |-> TRUE]

NoEntry == [present |-> FALSE, cloudProvider |-> "elevenlabs", enabled |-> FALSE]

\* TranscriptionConfig.findOne({ language, enabled: true }) returned a document.
ConfigFound == directory.present /\ directory.enabled

Lookup(point, result) ==
    [point |-> point, found |-> ConfigFound, result |-> result]

\* Connect-time routing with the lookup's result.
ConnectMode ==
    IF ~ConfigFound
    THEN IF language # "en" THEN "batch" ELSE "realtime"
    ELSE IF directory.cloudProvider # "deepgram" THEN "batch" ELSE "realtime"

\* Connect-time routing when the lookup is rejected.
ConnectFallbackMode ==
    IF language \in {"bn", "th", "ms", "auto"} THEN "batch" ELSE "realtime"

\* useBatch of the close handler.
CloseMode ==
    IF ~ConfigFound \/ directory.cloudProvider # "deepgram"
    THEN "batch" ELSE "realtime"

\* HybridTranscriptionService.processPartialRecording
PartialProvider ==
    IF ~ConfigFound THEN "elevenlabs"
    ELSE IF directory.cloudProvider = "aws" THEN "aws" ELSE "elevenlabs"

\* HybridTranscriptionService.startBatchTranscription
FinalProvider ==
    IF ~ConfigFound THEN "throws"
    ELSE IF directory.cloudProvider = "aws" THEN "aws"
    ELSE IF directory.cloudProvider = "elevenlabs" THEN "elevenlabs"
    ELSE "elevenlabs"

\* What handleBatchMode and handleRealtimeMode leave alone.
outsideStartMode ==
    <<db, mergeVars, provider, job, run, returned, submitted, wsOpen, summaries,
      intermediates, stop, snapshots, elapsed, ticks, request, attachVars,
      registryVars>>

\* handleBatchMode: startRecording, setInterval, frame handler that records.
\* handleRealtimeMode: startSession, which throws for the batch languages and
\* is then reported to the client, and a frame handler that forwards.
StartsMode(mode) ==
    IF mode = "batch"
    THEN /\ rec' = StartedRecording
         /\ file' = NoFile
         /\ timer' = TRUE
         /\ handler' = "record"
         /\ UNCHANGED <<stream, events>>
    ELSE /\ handler' = "stream"
         /\ UNCHANGED <<rec, file, timer>>
         /\ IF language \in {"bn", "th", "ms", "auto"}
            THEN /\ events' = Send(ErrorEvent("Failed to start transcription"))
                 /\ UNCHANGED stream
            ELSE /\ stream' = [stream EXCEPT
                        !.phase = "recording", !.connections = @ + 1,
                        !.session = [present |-> TRUE, transcript |-> "",
                                     interimTranscript |-> ""]]
                 /\ UNCHANGED events

\* A connection has passed the establishment checks.
ConnectionAccepted ==
    /\ conn.phase = "none"
    /\ conn' = [conn EXCEPT !.phase = "connecting"]
    /\ UNCHANGED <<language, directory, admin, routed>>
    /\ UNCHANGED outsideRoute

ConnectRoutes ==
    /\ conn.phase = "connecting"
    /\ conn' = [conn EXCEPT !.phase = "routed", !.mode = ConnectMode]
    /\ routed' = Append(routed, Lookup("connect", ConnectMode))
    /\ StartsMode(ConnectMode)
    /\ UNCHANGED <<language, directory, admin>>
    /\ UNCHANGED outsideStartMode

ConnectLookupFails ==
    /\ conn.phase = "connecting"
    /\ conn' = [conn EXCEPT !.phase = "routed", !.mode = ConnectFallbackMode]
    /\ routed' = Append(routed, [point |-> "connect", found |-> FALSE,
                                 result |-> ConnectFallbackMode])
    /\ StartsMode(ConnectFallbackMode)
    /\ UNCHANGED <<language, directory, admin>>
    /\ UNCHANGED outsideStartMode

\* A periodic tick of a batch-mode connection picks its provider.
PartialRoutes ==
    /\ conn.phase = "routed"
    /\ conn.mode = "batch"
    /\ Len(SelectSeq(routed, LAMBDA r : r.point = "partial")) < MaxPartialLookups
    /\ routed' = Append(routed, Lookup("partial", PartialProvider))
    /\ UNCHANGED <<language, directory, admin, conn>>
    /\ UNCHANGED outsideRoute

\* ws.on('close'): the mode is derived again from the directory. A batch
\* close of a connection that recorded goes on to the final transcription.
CloseRoutes ==
    /\ conn.phase = "routed"
    /\ conn' = [conn EXCEPT !.closeMode = CloseMode,
                            !.phase = IF CloseMode = "batch" /\ conn.mode = "batch"
                                      THEN "finalizing" ELSE "closed"]
    /\ routed' = Append(routed, Lookup("close", CloseMode))
    /\ UNCHANGED <<language, directory, admin>>
    /\ UNCHANGED outsideRoute

\* The final batch transcription picks its provider, or throws.
FinalRoutes ==
    /\ conn.phase = "finalizing"
    /\ conn' = [conn EXCEPT !.phase = "closed"]
    /\ routed' = Append(routed, Lookup("final", FinalProvider))
    /\ UNCHANGED <<language, directory, admin>>
    /\ UNCHANGED outsideRoute

\* updateTranscriptionConfig: findOneAndUpdate with upsert; a field left out
\* of the request keeps its value.
AdminUpdates(cloudProvider, enabled) ==
    /\ admin.changes < MaxAdminChanges
    /\ ~admin.resetting
    /\ directory' =
          [present |-> TRUE,
           cloudProvider |-> IF cloudProvider = "undefined"
                             THEN (IF directory.present THEN directory.cloudProvider
                                   ELSE "elevenlabs")
                             ELSE cloudProvider,
           enabled |-> IF enabled = "undefined"
                       THEN (IF directory.present THEN directory.enabled ELSE TRUE)
                       ELSE enabled = "true"]
    /\ admin' = [admin EXCEPT !.changes = @ + 1]
    /\ UNCHANGED <<language, conn, routed>>
    /\ UNCHANGED outsideRoute

\* resetTranscriptionConfigs: deleteMany.
AdminResetDeletes ==
    /\ admin.changes < MaxAdminChanges
    /\ ~admin.resetting
    /\ directory' = NoEntry
    /\ admin' = [changes |-> admin.changes + 1, resetting |-> TRUE]
    /\ UNCHANGED <<language, conn, routed>>
    /\ UNCHANGED outsideRoute

\* resetTranscriptionConfigs: initializeDefaults.
AdminResetRestores ==
    /\ admin.resetting
    /\ directory' = DefaultEntry(language)
    /\ admin' = [admin EXCEPT !.resetting = FALSE]
    /\ UNCHANGED <<language, conn, routed>>
    /\ UNCHANGED outsideRoute

\* The server has started and initialised the default directory.
RouteInit ==
    /\ db = NewConsultation("")
    /\ MergeIdle
    /\ BatchIdle
    /\ StreamIdle
    /\ RecIdle
    /\ TickIdle
    /\ language \in Languages
    /\ directory = DefaultEntry(language)
    /\ admin = NoAdmin
    /\ conn = NotConnected
    /\ routed = <<>>
    /\ ConnectIdle
    /\ AttachIdle
    /\ RegistryIdle

RouteNext ==
    \/ ConnectionAccepted
    \/ ConnectRoutes
    \/ ConnectLookupFails
    \/ PartialRoutes
    \/ CloseRoutes
    \/ FinalRoutes
    \/ \E p \in CloudProviders \cup {"undefined"}, e \in {"true", "false", "undefined"} :
          AdminUpdates(p, e)
    \/ AdminResetDeletes
    \/ AdminResetRestores

SpecRoute == RouteInit /\ [][RouteNext]_vars

\* C13: the mode the close handler uses is the mode chosen when the
\* connection was routed.
C13_CloseModeIsConnectMode ==
    conn.closeMode # "none" => conn.closeMode = conn.mode

\* C14: a lookup that finds no enabled entry never fails: every routing point
\* goes on with a default.
C14_NoEntryUsesDefault ==
    \A i \in 1..Len(routed) : ~routed[i].found => routed[i].result # "throws"

\* C36: while a connection that was routed to realtime mode is open, a
\* streaming session is registered for its consultation and its frame handler
\* forwards to it, whatever the consultation's language.
C36_RealtimeModeHasSession ==
    (conn.phase = "routed" /\ conn.mode = "realtime" /\ conn.closeMode = "none")
        => (handler = "stream" /\ stream.session.present)

-----------------------------------------------------------------------------
(* Connection establishment *)

Tokens == {"missing", "invalid", "owner", "other"}

ConsultationIds == {"missing", "known", "unknown"}

Statuses == {"in_progress", "processing", "partial", "completed"}

StatusAcceptedAlways(status) == TRUE

\* consultation.status !== 'in_progress' closes the connection.
StatusAccepted(status) == status = "in_progress"

\* Consultation.findOne({ _id: consultationId, userId }) returns a document.
ConsultationFound ==
    db.exists /\ request.id = "known" /\ request.token = "owner"

\* ws.close(1008, reason)
Rejects ==
    /\ conn' = [conn EXCEPT !.phase = "rejected"]
    /\ wsOpen' = FALSE

\* wss.on('connection') up to the consultation lookup: token present,
\* consultation id present, token verified.
ConnectionArrives ==
    /\ conn.phase = "none"
    /\ IF request.token = "missing" \/ request.id = "missing"
          \/ request.token = "invalid"
       THEN Rejects
       ELSE /\ conn' = [conn EXCEPT !.phase = "lookup"]
            /\ UNCHANGED wsOpen
    /\ UNCHANGED <<db, events, stream, rec, timer, routed, request, handler>>
    /\ UNCHANGED outsideConnect

\* The consultation lookup resolves: ownership and status are tested, the
\* stored transcript is sent, the directory lookup is started.
ConsultationLookupReturns ==
    /\ conn.phase = "lookup"
    /\ IF ~ConsultationFound \/ ~StatusAccepted(db.status)
       THEN /\ Rejects
            /\ UNCHANGED events
       ELSE /\ conn' = [conn EXCEPT !.phase = "connecting"]
            /\ events' = IF Truthy(db.transcript)
                         THEN Send(InitialEvent(db.transcript)) ELSE events
            /\ UNCHANGED wsOpen
    /\ UNCHANGED <<db, stream, rec, timer, routed, request, handler>>
    /\ UNCHANGED outsideConnect

\* The consultation lookup is rejected.
ConsultationLookupRejects ==
    /\ conn.phase = "lookup"
    /\ Rejects
    /\ UNCHANGED <<db, events, stream, rec, timer, routed, request, handler>>
    /\ UNCHANGED outsideConnect

\* The socket closes while the consultation or directory lookup is pending:
\* ws.on('close') finds no interval to clear and no session to stop, cancel
\* or end; the pending lookup goes on.
ClosesBeforeStart ==
    /\ conn.phase \in {"lookup", "connecting"}
    /\ wsOpen
    /\ wsOpen' = FALSE
    /\ conn' = [conn EXCEPT !.closeMode =
                    IF db.exists /\ request.id = "known" THEN CloseMode
                    ELSE "notfound"]
    /\ UNCHANGED <<db, events, stream, rec, timer, routed, request, handler>>
    /\ UNCHANGED outsideConnect

\* A connection request reaches the server.
ConnectInit ==
    /\ \E status \in Statuses, t \in {"", "tick"} :
          db = [NewConsultation(t) EXCEPT !.status = status]
    /\ MergeIdle
    /\ StreamIdle
    /\ RecIdle
    /\ TickIdle
    /\ provider = "elevenlabs"
    /\ job = NoJob
    /\ run = IdleRun
    /\ returned = <<>>
    /\ intermediates = NoIntermediates
    /\ submitted = <<>>
    /\ events = <<>>
    /\ wsOpen = TRUE
    /\ summaries = <<>>
    /\ language \in Languages
    /\ directory = DefaultEntry(language)
    /\ admin = NoAdmin
    /\ conn = NotConnected
    /\ routed = <<>>
    /\ request \in [token : Tokens, id : ConsultationIds]
    /\ handler = "none"
    /\ AttachIdle
    /\ RegistryIdle

ConnectNext ==
    \/ ConnectionArrives
    \/ ConsultationLookupReturns
    \/ ConsultationLookupRejects
    \/ ClosesBeforeStart
    \/ ConnectRoutes
    \/ ConnectLookupFails

SpecConnect == ConnectInit /\ [][ConnectNext]_vars

\* The request carries a valid token of the consultation's owner and the id
\* of an existing consultation that is in progress.
ChecksPass ==
    /\ request.token = "owner"
    /\ request.id = "known"
    /\ db.exists
    /\ db.status = "in_progress"

\* C16: a recording session, streaming session, interval or frame handler
\* exists only for a request that passes every check, and a request that
\* fails a check ends with its connection closed.
C16_NothingStartedUnlessChecked ==
    /\ (rec.present \/ stream.session.present \/ timer \/ handler # "none")
          => ChecksPass
    /\ (~ChecksPass /\ conn.phase \notin {"none", "lookup"})
          => (conn.phase = "rejected" /\ ~wsOpen)

\* A request that passed every check has been routed to batch mode.
C16_Witness ==
    /\ ChecksPass
    /\ conn.phase = "routed"
    /\ rec.present /\ timer /\ handler = "record"

\* C28: a tick that ends as transcribed or as too short leaves a
\* processedDuration that is not larger than the duration of the audio its
\* snapshot held (at 32000 bytes a second).
C28_WatermarkIsSnapshotDuration ==
    [][\A t \in 1..Len(ticks) :
          (ticks[t].pc = "partial" /\ ticks'[t].pc \in {"transcribed", "skipped"})
              => rec'.processedDuration * ByteRate <= ticks[t].snapBytes]_vars

\* C29: a step in which a tick's provider call fails, whether
\* processPartialRecording throws or not, leaves processedDuration as it
\* was.
C29_FailedTickKeepsWatermark ==
    [][\A t \in 1..Len(ticks) :
          (ticks[t].pc = "partial"
             /\ (ticks'[t].pc = "failed" \/ ticks'[t].vendorFailed))
              => rec'.processedDuration = rec.processedDuration]_vars

\* The closing events of the run.
FinalEvents == SelectSeq(events, LAMBDA e : e.isFinal)

\* C26: a run that has gone through all its chunks has marked the
\* consultation completed and, when the socket is open, has sent exactly one
\* closing event, with progress 100, after every per-chunk event; a run that
\* was stopped by an error has sent no closing event.
C26_CompletionEvent ==
    /\ run.pc = "done" =>
          /\ db.status = "completed"
          /\ db.transcriptionProgress = 100
          /\ wsOpen =>
                /\ Len(FinalEvents) = 1
                /\ events[Len(events)].isFinal
                /\ events[Len(events)].progress = 100
                /\ events[Len(events)].processedChunks = run.n
    /\ Len(FinalEvents) <= 1
    /\ run.pc # "done" => FinalEvents = <<>>

\* A run of three chunks whose first call failed with another error has
\* ended completed, with two per-chunk events and then the closing one.
C26_Witness ==
    /\ wsOpen /\ run.pc = "done" /\ run.n = 3
    /\ OtherError(returned[1])
    /\ Len(events) = 3
    /\ ~events[2].isFinal /\ events[3].isFinal
    /\ db.status = "completed"

\* C27: at most one adapter call is in flight; a chunk is submitted only
\* when every earlier call has returned or failed, and when the last one
\* returned text, after that text has gone through saveTranscript.
C27_ChunksSequential ==
    /\ [](Len(submitted) = Len(returned) + (IF run.pc = "transcribing" THEN 1 ELSE 0))
    /\ [][Len(submitted') > Len(submitted)
            => /\ Len(returned) = Len(submitted)
               /\ submitted' = Append(submitted, Len(returned) + 1)
               /\ (returned # <<>> /\ returned[Len(returned)].out.kind = "text"
                     /\ HasText(returned[Len(returned)].out.text))
                    => Len(db.transcript) >= Len(returned[Len(returned)].after)]_vars

\* The third call is in flight after two calls returned text that is stored.
C27_Witness ==
    /\ run.pc = "transcribing"
    /\ Len(submitted) = 3 /\ Len(returned) = 2
    /\ AllChunksHaveText
    /\ db.transcript = job.fullTranscript

\* The adapter call that returned last.
LastReturned == returned[Len(returned)]

C39_CompletedDespiteFailedChunks ==
    /\ run.pc = "done"
          => /\ db.status = "completed"
             /\ db.totalChunks = run.n
             /\ db.processedChunks = db.totalChunks
    /\ (run.pc \in {"done", "thrown"} /\ db.status = "partial")
          => run.pc = "thrown"

\* A run of three chunks whose second and third calls failed with another
\* error, the last one leaving the consultation partial with two chunks
\* processed, has ended completed with three of three.
C39_Witness ==
    /\ run.pc = "done" /\ run.n = 3
    /\ OtherError(returned[2]) /\ OtherError(returned[3])
    /\ db.status = "completed"
    /\ db.processedChunks = 3 /\ db.totalChunks = 3

\* C21: when the close handler reaches startBatchTranscription with the
\* watermark above zero, it has run one incremental pass over the audio
\* after the watermark.
C21_FinalSegmentPass ==
    (stop.pc = "final" /\ rec.processedDuration > 0)
        => \E t \in 1..Len(ticks) : ticks[t].pc = "finalsegment"

\* C20: when startBatchTranscription has returned or thrown after creating
\* the normalized file and the chunk files, none of them is left on disk.
C20_IntermediatesDeleted ==
    (run.pc \in {"done", "thrown"} /\ run.n > 0)
        => intermediates = NoIntermediates

\* C19: at most one body of the interval callback is between its start and
\* its end at any time.
C19_OneTickAtATime ==
    Cardinality({t \in 1..Len(ticks) : ticks[t].pc \in {"snapshot", "partial"}}) <= 1

\* C18: no file holds audio of the session at any time, and no recording
\* file is left once stopRecording has resolved.
C18_NoAudioOnDisk ==
    /\ file.data = <<>>
    /\ stop.pc = "resolved" => file = NoFile

\* C30: once the close handler of the connection has run, the connection
\* has no interval and no recording session of it is in the registry.
C30_NothingLeftAfterClose ==
    conn.closeMode # "none" => (~timer /\ ~rec.present)

-----------------------------------------------------------------------------
(* Several connections attached to one consultation in batch mode *)

outsideAttach ==
    <<mergeVars, batchVars, streamVars, recVars, tickVars, routeVars, connectVars,
      registryVars>>

\* handleBatchMode for connection c: startRecording puts a new session under
\* the consultation's id, whatever was there, and the connection gets its
\* own interval.
Attaches(c) ==
    /\ sockets[c].phase = "none"
    /\ db.status = "in_progress"
    /\ sessions' = [present |-> TRUE, owner |-> c, snapshotBy |-> {},
                    stoppedBy |-> 0]
    /\ sockets' = [sockets EXCEPT ![c] = [phase |-> "open", timer |-> TRUE,
                                          rejected |-> FALSE]]
    /\ UNCHANGED db
    /\ UNCHANGED outsideAttach

\* The interval of connection c fires: without a session under the id it
\* clears itself, otherwise it snapshots the session found there.
SocketTimerFires(c) ==
    /\ sockets[c].timer
    /\ IF sessions.present
       THEN /\ sessions' = [sessions EXCEPT !.snapshotBy = @ \cup {c}]
            /\ UNCHANGED sockets
       ELSE /\ sockets' = [sockets EXCEPT ![c].timer = FALSE]
            /\ UNCHANGED sessions
    /\ UNCHANGED db
    /\ UNCHANGED outsideAttach

\* ws.on('close') of connection c up to its first await: its interval is
\* cleared.
SocketCloseBegins(c) ==
    /\ sockets[c].phase = "open"
    /\ sockets' = [sockets EXCEPT ![c].phase = "closing", ![c].timer = FALSE]
    /\ UNCHANGED <<db, sessions>>
    /\ UNCHANGED outsideAttach

\* A connection c whose token belongs to another user, or that arrives when
\* the consultation is not in progress: the establishment checks call
\* ws.close(1008), and the close handler registered for every connection
\* runs up to its first await.
ConnectionRejected(c) ==
    /\ sockets[c].phase = "none"
    /\ db.exists
    /\ sockets' = [sockets EXCEPT ![c] = [phase |-> "closing", timer |-> FALSE,
                                          rejected |-> TRUE]]
    /\ UNCHANGED <<db, sessions>>
    /\ UNCHANGED outsideAttach

\* ws.on('close') of connection c after the lookups (findById by id alone):
\* stopRecording ends the session found under the id and
\* startBatchTranscription is called; without a session stopRecording
\* throws and cancelRecording finds nothing.
SocketCloseStops(c) ==
    /\ sockets[c].phase = "closing"
    /\ IF sessions.present
       THEN /\ sessions' = [sessions EXCEPT !.present = FALSE, !.stoppedBy = c]
            /\ sockets' = [sockets EXCEPT ![c].phase = "finalizing"]
       ELSE /\ sockets' = [sockets EXCEPT ![c].phase = "closed"]
            /\ UNCHANGED sessions
    /\ UNCHANGED db
    /\ UNCHANGED outsideAttach

\* startBatchTranscription started by connection c, after normalizeAudio and
\* chunkAudio: the consultation is marked 'processing'.
FinalMarksProcessing(c) ==
    /\ sockets[c].phase = "finalizing"
    /\ sockets' = [sockets EXCEPT ![c].phase = "processing"]
    /\ db' = [db EXCEPT !.status = "processing"]
    /\ UNCHANGED sessions
    /\ UNCHANGED outsideAttach

\* processChunks of that run has gone through its chunks: the consultation
\* is marked 'completed'.
FinalCompletes(c) ==
    /\ sockets[c].phase = "processing"
    /\ sockets' = [sockets EXCEPT ![c].phase = "closed"]
    /\ db' = [db EXCEPT !.status = "completed"]
    /\ UNCHANGED sessions
    /\ UNCHANGED outsideAttach

\* A consultation in progress that no connection has attached to yet.
AttachInit ==
    /\ db = NewConsultation("")
    /\ MergeIdle
    /\ BatchIdle
    /\ StreamIdle
    /\ RecIdle
    /\ TickIdle
    /\ RouteIdle
    /\ ConnectIdle
    /\ AttachIdle
    /\ RegistryIdle

AttachNext ==
    \E c \in 1..MaxSockets :
        \/ Attaches(c)
        \/ SocketTimerFires(c)
        \/ SocketCloseBegins(c)
        \/ ConnectionRejected(c)
        \/ SocketCloseStops(c)
        \/ FinalMarksProcessing(c)
        \/ FinalCompletes(c)

SpecAttach == AttachInit /\ [][AttachNext]_vars

\* C17: a consultation has at most one interval, and the recording under
\* its id is snapshotted and stopped only by the connection that started it.
C17_OneLiveSession ==
    /\ Cardinality({c \in 1..MaxSockets : sockets[c].timer}) <= 1
    /\ sessions.snapshotBy \subseteq {sessions.owner}
    /\ sessions.stoppedBy \in {0, sessions.owner}



\* C35: the close handler of a connection that was rejected at
\* establishment stops no recording and starts no transcription: no step
\* of such a connection changes the registry or the consultation.
C35_RejectedConnectionTouchesNothing ==
    /\ [](sessions.stoppedBy = 0 \/ ~sockets[sessions.stoppedBy].rejected)
    /\ [][\A c \in 1..MaxSockets :
            (sockets[c].rejected /\ sockets'[c] # sockets[c])
                => (sessions' = sessions /\ db' = db)]_vars

\* A final transcription started by the close handler of some connection has
\* not finished.
Finalizing ==
    \E c \in 1..MaxSockets : sockets[c].phase \in {"finalizing", "processing"}

\* C38: while a close handler's final transcription has not finished, no
\* connection passes the status check and attaches.
C38_NoAttachWhileFinalizing ==
    [][Finalizing
        => \A c \in 1..MaxSockets :
              ~(sockets[c].phase = "none" /\ sockets'[c].phase = "open")]_vars

-----------------------------------------------------------------------------
(* The recording registry: calls of AudioRecordingService by consultation id *)

outsideRegistry ==
    <<db, mergeVars, batchVars, streamVars, recVars, tickVars, routeVars,
      connectVars, attachVars>>

\* One frame of half a second.
RegistryFrame == [kind |-> "pcm", size |-> 16000]

\* A call of the service as its caller saw it: whether sessions.get found an
\* entry, and whether the call returned, threw, resolved or rejected.
Called(op, id, outcome) ==
    [op |-> op, id |-> id, found |-> registry.sessions[id].present,
     outcome |-> outcome]

\* PCM blocks in a sequence of blocks.
DataBlocks(blocks) == SelectSeq(blocks, LAMBDA b : b.kind = "pcm")

\* startRecording: a new file, a new write stream that holds the placeholder
\* header, and sessions.set, whatever was under the id.
RegistryStartRecording(id) ==
    /\ Len(registry.calls) < MaxCalls
    /\ registry' = [registry EXCEPT
          !.sessions[id] = [present |-> TRUE, chunksReceived |-> 0,
                            queued |-> <<[kind |-> "header", size |-> HeaderSize]>>],
          !.files[id] = <<>>,
          !.calls = Append(@, Called("startRecording", id, "returned"))]
    /\ UNCHANGED outsideRegistry

RegistryWriteChunkOpens(id) ==
    /\ Len(registry.calls) < MaxCalls
    /\ registry' = [registry EXCEPT
          !.sessions[id] = [present |-> TRUE,
                            chunksReceived |-> registry.sessions[id].chunksReceived + 1,
                            queued |-> Append(registry.sessions[id].queued, RegistryFrame)],
          !.calls = Append(@, Called("writeChunk", id, "returned"))]
    /\ UNCHANGED outsideRegistry

\* writeChunk: without an entry it warns and returns; with one, the frame is
\* handed to the write stream and counted.
RegistryWriteChunk(id) ==
    /\ Len(registry.calls) < MaxCalls
    /\ registry' =
          IF ~registry.sessions[id].present
          THEN [registry EXCEPT
                  !.calls = Append(@, Called("writeChunk", id, "returned"))]
          ELSE [registry EXCEPT
                  !.sessions[id].queued = Append(@, RegistryFrame),
                  !.sessions[id].chunksReceived = @ + 1,
                  !.calls = Append(@, Called("writeChunk", id, "returned"))]
    /\ UNCHANGED outsideRegistry

\* The write stream of an entry completes its oldest queued write.
RegistryFlush(id) ==
    /\ registry.sessions[id].present
    /\ registry.sessions[id].queued # <<>>
    /\ registry' = [registry EXCEPT
          !.sessions[id].queued = Tail(@),
          !.files[id] = Append(@, Head(registry.sessions[id].queued))]
    /\ UNCHANGED outsideRegistry

\* stopRecording: throws without an entry; otherwise the stream is ended,
\* which completes the queued writes, and the file is finalized and the
\* entry deleted, or, without data, the promise is rejected and the entry
\* stays.
RegistryStopRecording(id) ==
    /\ Len(registry.calls) < MaxCalls
    /\ LET session == registry.sessions[id]
           content == registry.files[id] \o session.queued
       IN  registry' =
             IF ~session.present
             THEN [registry EXCEPT
                     !.calls = Append(@, Called("stopRecording", id, "threw"))]
             ELSE IF DataBlocks(content) = <<>>
             THEN [registry EXCEPT
                     !.sessions[id].queued = <<>>,
                     !.files[id] = content,
                     !.calls = Append(@, Called("stopRecording", id, "rejected"))]
             ELSE [registry EXCEPT
                     !.sessions[id] = NoEntryFor,
                     !.files[id] = content,
                     !.calls = Append(@, Called("stopRecording", id, "resolved"))]
    /\ UNCHANGED outsideRegistry

\* cancelRecording: returns without an entry; otherwise the stream is
\* destroyed with what it still holds and the entry is deleted.
RegistryCancelRecording(id) ==
    /\ Len(registry.calls) < MaxCalls
    /\ registry' =
          IF ~registry.sessions[id].present
          THEN [registry EXCEPT
                  !.calls = Append(@, Called("cancelRecording", id, "returned"))]
          ELSE [registry EXCEPT
                  !.sessions[id] = NoEntryFor,
                  !.calls = Append(@, Called("cancelRecording", id, "returned"))]
    /\ UNCHANGED outsideRegistry

\* The service after construction.
RegistryInit ==
    /\ db = NewConsultation("")
    /\ MergeIdle
    /\ BatchIdle
    /\ StreamIdle
    /\ RecIdle
    /\ TickIdle
    /\ RouteIdle
    /\ ConnectIdle
    /\ AttachIdle
    /\ RegistryIdle

RegistryNext ==
    \E id \in SessionIds :
        \/ RegistryStartRecording(id)
        \/ RegistryWriteChunk(id)
        \/ RegistryFlush(id)
        \/ RegistryStopRecording(id)
        \/ RegistryCancelRecording(id)

SpecRegistry == RegistryInit /\ [][RegistryNext]_vars

\* The call made by the step, when the step is a call.
LastCall == registry.calls[Len(registry.calls)]

\* C31: a writeChunk call that finds no entry under its id returns, and the
\* step leaves every entry of the registry and every recording file as it
\* was.
C31_WriteWithoutSessionIsNoOp ==
    [][(/\ Len(registry'.calls) = Len(registry.calls) + 1
        /\ LastCall'.op = "writeChunk"
        /\ ~LastCall'.found)
         => /\ LastCall'.outcome = "returned"
            /\ registry'.sessions = registry.sessions
            /\ registry'.files = registry.files]_vars

\* A frame arrived for "a" after its recording was cancelled, while "b" is
\* recording and has flushed audio to its file.
C31_Witness ==
    /\ Len(registry.calls) = 4
    /\ registry.calls[3] = [op |-> "cancelRecording", id |-> "a",
                            found |-> TRUE, outcome |-> "returned"]
    /\ registry.calls[4] = [op |-> "writeChunk", id |-> "a",
                            found |-> FALSE, outcome |-> "returned"]
    /\ registry.sessions["b"].present
    /\ ~registry.sessions["a"].present

-----------------------------------------------------------------------------
(* The final batch run with a periodic tick still in flight *)

outsideFinalTick ==
    <<mergeVars, provider, run, returned, submitted, wsOpen, summaries,
      intermediates, streamVars, recVars, elapsed, timer, routeVars,
      connectVars, attachVars, registryVars>>

\* The tick that fired at 30 s and is inside processPartialRecording, before
\* 'Get or create job', when the connection closes. held and heldText are
\* the job object the call has in its local variable.
InFlightTick ==
    [pc |-> "partial", currentDuration |-> IntervalSeconds, start |-> 0,
     snapBytes |-> IntervalSeconds * ByteRate, skippedUpTo |-> 0,
     vendorFailed |-> FALSE, held |-> "none", heldText |-> ""]

\* The object under the consultation's id in the jobs map: the one a tick
\* created (chunks: []) or the one startBatchTranscription created.
JobInMap ==
    IF ~job.present THEN "none"
    ELSE IF job.chunks > 0 THEN "final" ELSE "partial"

\* fullTranscript of the final job when cleanup removed it from the map.
FinishedText ==
    IF summaries = <<>> THEN "" ELSE summaries[Len(summaries)]

\* processPartialRecording, 'Get or create job': the object in the map is
\* taken, whoever put it there; without one a new object is put in the map.
FinalTickGetsJob ==
    /\ Len(ticks) = 1
    /\ ticks[1].pc = "partial"
    /\ job' = IF job.present THEN job ELSE NewJob(0)
    /\ ticks' = [ticks EXCEPT ![1] =
          [@ EXCEPT !.pc = "holding",
                    !.held = IF JobInMap = "final" THEN "final" ELSE "partial",
                    !.heldText = IF job.present THEN job.fullTranscript ELSE ""]]
    /\ UNCHANGED <<db, events>>
    /\ UNCHANGED outsideFinalTick

\* processPartialRecording after transcribeChunk: a text is appended to the
\* object taken before, which is the map's object unless that was replaced
\* or removed since; the object's text is saved and sent.
FinalTickReturns(text) ==
    /\ Len(ticks) = 1
    /\ ticks[1].pc = "holding"
    /\ LET attached == JobInMap = ticks[1].held
           before == IF attached THEN job.fullTranscript
                     ELSE IF ticks[1].held = "final" THEN FinishedText
                     ELSE ticks[1].heldText
           full == AppendChunk(before, text)
       IN  IF HasText(text)
           THEN /\ job' = IF attached THEN [job EXCEPT !.fullTranscript = full]
                          ELSE job
                /\ db' = SaveTranscript(db, full, FALSE)
                /\ events' = Send(PartialEvent(full))
                /\ ticks' = [ticks EXCEPT ![1].pc = "transcribed",
                                          ![1].heldText = full]
           ELSE /\ ticks' = [ticks EXCEPT ![1].pc = "transcribed"]
                /\ UNCHANGED <<job, db, events>>
    /\ UNCHANGED outsideFinalTick

\* The close handler is about to call startBatchTranscription on the closed
\* socket while one tick is in flight.
FinalInit ==
    /\ provider \in Providers
    /\ \E t \in {"", "tick"} :
          /\ db = NewConsultation(t)
          /\ job = IF t = "" THEN NoJob
                   ELSE [NewJob(0) EXCEPT !.fullTranscript = t]
    /\ run = IdleRun
    /\ returned = <<>>
    /\ intermediates = NoIntermediates
    /\ submitted = <<>>
    /\ events = <<>>
    /\ wsOpen = FALSE
    /\ summaries = <<>>
    /\ MergeIdle
    /\ StreamIdle
    /\ RecIdle
    /\ elapsed = IntervalSeconds
    /\ timer = FALSE
    /\ ticks = <<InFlightTick>>
    /\ RouteIdle
    /\ ConnectIdle
    /\ AttachIdle
    /\ RegistryIdle

FinalNext ==
    \/ \E n \in 1..MaxChunks : StartBatchTranscription(n)
    \/ StartBatchFails
    \/ SubmitChunk
    \/ \E t \in AdapterTexts : ChunkTranscribed(t)
    \/ \E err \in ChunkErrors(provider) : ChunkFailed(err)
    \/ FinishChunks
    \/ FinalTickGetsJob
    \/ \E text \in TickTexts : FinalTickReturns(text)

SpecFinal == FinalInit /\ [][FinalNext]_vars

\* C37: the job object of the final run holds the texts of that run's
\* chunks, in index order, and nothing else, also while a tick that was in
\* flight at the close goes on.
C37_FinalJobHoldsOnlyItsChunks ==
    JobInMap = "final" => job.fullTranscript = JoinedResults(returned)

====
